---- MODULE Spec2Model ----
(***************************************************************************)
(* Momentum: the SQLite persistence layer (momentum/db.py), the status     *)
(* aggregator and the countdown timers of the three front-ends.            *)
(*                                                                         *)
(* Dates are day numbers (0 is the day the database is created); the ISO   *)
(* strings the code stores are in one-to-one, order-preserving             *)
(* correspondence with them.  A timestamp is abstracted to its day.        *)
(* A task's title is abstracted to its length; created_at takes no part in *)
(* any transition and is left out of the rows.                             *)
(***************************************************************************)
EXTENDS Integers, Sequences, FiniteSets, TLC

\* ------------------------------------------------------------------ bounds
\* Persistence calls per run of Spec, user actions per run of SpecUI.
MaxCalls == 4
\* Countdown ticks per minute (the code's 60) in SpecUI.
TicksPerMinute == 1

\* --------------------------------------------------------------- constants
\* SQL NULL / Python None in an optional column or argument.
NULL == -1

\* Mutant: the pragma is never issued, SQLite's default.
foreign_keys_off == FALSE

\* PRAGMA foreign_keys = ON, set by get_connection on every connection.
foreign_keys == TRUE

TaskStatus == {"pending", "active", "done"}
AssessmentType == {"bdefs", "stroop"}

VARIABLES
    tasks,           \* table tasks as this connection sees it; row i has id i
    focus_sessions,  \* table focus_sessions as this connection sees it
    daily_log,       \* table daily_log as this connection sees it: date -> row
    assessments,     \* table assessments as this connection sees it
    committed,       \* the tables as committed to the database file
    today,           \* date.today()
    result,          \* what the last persistence call returned or raised
    calls,           \* calls made so far (bounds the run)
    frontend,        \* which program drives the database in this run
    applied,         \* the call of a function or query in progress or made last, with its value
    clock,           \* datetime.now() within the day, as a clock reading
    timer_running,       \* MomentumApp / HomeScreen ._timer_running
    timer_seconds_left,  \* ._timer_seconds_left
    timer_total,         \* ._timer_total
    timer_task_id,       \* ._timer_task_id
    timer_is_break,      \* ._timer_is_break
    pending_ticks,       \* desktop: root.after(1000, self._tick) callbacks not yet run
    timer_event,         \* mobile: the Clock.schedule_interval event is scheduled
    selected_task_id,    \* mobile: HomeScreen._selected_task_id
    cli_pc,              \* CLI: where the running command is
    cli_left,            \* CLI: iterations run_timer's loop still has to make
    cli_minutes,         \* CLI: the countdown's minutes
    cli_task_id          \* CLI: the countdown's task_id

dbvars == <<tasks, focus_sessions, daily_log, assessments, committed, result>>
timervars == <<timer_running, timer_seconds_left, timer_total, timer_task_id, timer_is_break>>
clivars == <<cli_pc, cli_left, cli_minutes, cli_task_id>>
uivars == <<frontend, applied, clock, timervars, pending_ticks, timer_event, selected_task_id, clivars>>
vars == <<dbvars, today, calls, uivars>>

\* Ids a caller may pass: every stored id, and one id that names no stored task.
TaskIdArgs == 1..(Len(tasks) + 1)
\* Durations a caller may pass (FocusSessionCreate accepts 1..120).
Minutes == {10, 15}
\* Title lengths the callers pass in Spec and SpecUI (TaskCreate accepts 1..500).
Titles == {8}

Exists(ts, id) == id \in 1..Len(ts)

\* get_daily_log: the stored row, or zeros when the date has none.
get_daily_log(log, for_date) ==
    IF for_date \in DOMAIN log THEN log[for_date]
    ELSE [tasks_completed |-> 0, focus_minutes |-> 0]

\* ------------------------------------------------------------------- json
\* A dict[str, int] is the sequence of its items [key, value] in insertion
\* order.  JSON text is the sequence of its tokens; a number token carries the
\* characters of its literal.
DigitChars == <<"0", "1", "2", "3", "4", "5", "6", "7", "8", "9">>

RECURSIVE Digits(_)
\* The decimal digits of n >= 0.
Digits(n) ==
    IF n < 10 THEN <<DigitChars[n + 1]>>
    ELSE Digits(n \div 10) \o <<DigitChars[(n % 10) + 1]>>

\* The JSON literal of an int.
IntLiteral(n) == IF n < 0 THEN <<"-">> \o Digits(-n) ELSE Digits(n)

RECURSIVE DigitsValue(_)
DigitsValue(cs) ==
    IF cs = <<>> THEN 0
    ELSE DigitsValue(SubSeq(cs, 1, Len(cs) - 1)) * 10
            + (CHOOSE d \in 0..9 : DigitChars[d + 1] = cs[Len(cs)])

\* The int a JSON number literal stands for.
ParseInt(cs) == IF Head(cs) = "-" THEN 0 - DigitsValue(Tail(cs)) ELSE DigitsValue(cs)

RECURSIVE ItemsText(_)
\* "key": value, "key": value, ...
ItemsText(items) ==
    IF items = <<>> THEN <<>>
    ELSE <<[tok |-> "string", text |-> items[1].key], [tok |-> ":"],
           [tok |-> "number", text |-> IntLiteral(items[1].value)]>>
         \o (IF Len(items) > 1 THEN <<[tok |-> ","]>> \o ItemsText(Tail(items)) ELSE <<>>)

\* Mutant: the separator is written in place of the last item.
json_dumps_short(d) ==
    <<[tok |-> "{"]>> \o ItemsText(SubSeq(d, 1, Len(d) - 1)) \o <<[tok |-> "}"]>>

\* json.dumps(result_in.domain_scores)
json_dumps(d) == <<[tok |-> "{"]>> \o ItemsText(d) \o <<[tok |-> "}"]>>

\* d[key] = value: a key already present keeps its place and takes the new value.
DictSet(d, key, value) ==
    IF \E i \in 1..Len(d) : d[i].key = key
    THEN [i \in 1..Len(d) |-> IF d[i].key = key THEN [key |-> key, value |-> value] ELSE d[i]]
    ELSE Append(d, [key |-> key, value |-> value])

RECURSIVE ParseItems(_, _)
\* The items of an object, read left to right into d.
ParseItems(toks, d) ==
    IF toks = <<>> THEN d
    ELSE LET rest == IF Len(toks) > 3 THEN SubSeq(toks, 5, Len(toks)) ELSE <<>>
         IN  ParseItems(rest, DictSet(d, toks[1].text, ParseInt(toks[3].text)))

\* json.loads(row["domain_scores"]) of an object of ints
json_loads(text) == ParseItems(SubSeq(text, 2, Len(text) - 1), <<>>)

\* ----------------------------------------------------------- SQL statements
\* Mutant: INSERT OR REPLACE over the latest row, whose id is used again.
InsertTask_replace(ts, title, parent_id) ==
    LET row == [title |-> title, parent_id |-> parent_id, status |-> "pending",
                completed_at |-> NULL]
    IN  IF ts = <<>> THEN <<row>> ELSE [ts EXCEPT ![Len(ts)] = row]

\* INSERT INTO tasks (title, parent_id, status, created_at): status pending,
\* completed_at left NULL, id the next AUTOINCREMENT value.
InsertTask(ts, title, parent_id) ==
    Append(ts, [title |-> title, parent_id |-> parent_id, status |-> "pending",
                completed_at |-> NULL])

\* UPDATE tasks SET status = ?, completed_at = ? WHERE id = ?
UpdateStatusCompleted(ts, id, status, completed_at) ==
    [i \in 1..Len(ts) |->
        IF i = id THEN [ts[i] EXCEPT !.status = status, !.completed_at = completed_at]
        ELSE ts[i]]

\* Mutant: the UPDATE has lost its WHERE clause.
UpdateStatus_all_rows(ts, id, status) ==
    [i \in 1..Len(ts) |-> [ts[i] EXCEPT !.status = status]]

\* UPDATE tasks SET status = ? WHERE id = ?
UpdateStatus(ts, id, status) ==
    [i \in 1..Len(ts) |-> IF i = id THEN [ts[i] EXCEPT !.status = status] ELSE ts[i]]

\* Mutant: INSERT OR REPLACE, which rewrites the whole row.
UpsertTasksCompleted_replace(log, d) ==
    (d :> [tasks_completed |-> get_daily_log(log, d).tasks_completed + 1,
           focus_minutes |-> 0]) @@ log

\* INSERT INTO daily_log VALUES (?, 1, 0)
\*   ON CONFLICT(date) DO UPDATE SET tasks_completed = tasks_completed + 1
UpsertTasksCompleted(log, d) ==
    IF d \in DOMAIN log
    THEN [log EXCEPT ![d].tasks_completed = @ + 1]
    ELSE (d :> [tasks_completed |-> 1, focus_minutes |-> 0]) @@ log

\* Mutant: on conflict the new duration replaces the stored minutes.
UpsertFocusMinutes_overwrite(log, d, minutes) ==
    (d :> [tasks_completed |-> get_daily_log(log, d).tasks_completed,
           focus_minutes |-> minutes]) @@ log

\* INSERT INTO daily_log VALUES (?, 0, ?)
\*   ON CONFLICT(date) DO UPDATE SET focus_minutes = focus_minutes + ?
UpsertFocusMinutes(log, d, minutes) ==
    IF d \in DOMAIN log
    THEN [log EXCEPT ![d].focus_minutes = @ + minutes]
    ELSE (d :> [tasks_completed |-> 0, focus_minutes |-> minutes]) @@ log

\* Mutant: INSERT OR REPLACE over the latest row.
InsertSession_replace(ss, task_id, minutes, now) ==
    LET row == [task_id |-> task_id, duration_minutes |-> minutes, completed_at |-> now]
    IN  IF ss = <<>> THEN <<row>> ELSE [ss EXCEPT ![Len(ss)] = row]

\* INSERT INTO focus_sessions (task_id, duration_minutes, completed_at)
InsertSession(ss, task_id, minutes, now) ==
    Append(ss, [task_id |-> task_id, duration_minutes |-> minutes, completed_at |-> now])

\* The foreign key REFERENCES tasks(id) accepts NULL and the id of a stored task.
ForeignKeyOk(ts, id) == ~foreign_keys \/ id = NULL \/ Exists(ts, id)

\* conn.commit(): everything this connection has written becomes the file's content.
Commit(ts, ss, log, as) ==
    committed' = [tasks |-> ts, focus_sessions |-> ss, daily_log |-> log, assessments |-> as]

\* SELECT * FROM tasks WHERE id = ? ; _row_to_task(row) if row else None
TaskOrNone(ts, id) == IF Exists(ts, id) THEN "Task" ELSE "None"

\* ------------------------------------------------------------- db.py calls
add_task(title, parent_id) ==
    /\ IF ForeignKeyOk(tasks, parent_id)
       THEN /\ tasks' = InsertTask(tasks, title, parent_id)
            /\ Commit(tasks', focus_sessions, daily_log, assessments)
            /\ result' = "Task"
       ELSE /\ result' = "IntegrityError"
            /\ UNCHANGED <<tasks, committed>>
    /\ UNCHANGED <<focus_sessions, daily_log, assessments>>

get_task(id) ==
    /\ result' = TaskOrNone(tasks, id)
    /\ UNCHANGED <<tasks, focus_sessions, daily_log, assessments, committed>>

\* Mutant: a task that is already done is not counted a second time.
complete_task_once(id, raises) ==
    /\ tasks' = UpdateStatusCompleted(tasks, id, "done", today)
    /\ IF raises
       THEN /\ result' = "Error"
            /\ UNCHANGED <<daily_log, committed>>
       ELSE /\ daily_log' = IF Exists(tasks, id) /\ tasks[id].status = "done"
                            THEN daily_log
                            ELSE UpsertTasksCompleted(daily_log, today)
            /\ Commit(tasks', focus_sessions, daily_log', assessments)
            /\ result' = TaskOrNone(tasks', id)
    /\ UNCHANGED <<focus_sessions, assessments>>

\* raises: the daily_log statement raises (sqlite3.Error, or an interrupt between
\* the two statements); the code has no handler, so the call ends there.
complete_task(id, raises) ==
    /\ tasks' = UpdateStatusCompleted(tasks, id, "done", today)
    /\ IF raises
       THEN /\ result' = "Error"
            /\ UNCHANGED <<daily_log, committed>>
       ELSE /\ daily_log' = UpsertTasksCompleted(daily_log, today)
            /\ Commit(tasks', focus_sessions, daily_log', assessments)
            /\ result' = TaskOrNone(tasks', id)
    /\ UNCHANGED <<focus_sessions, assessments>>

set_task_active(id) ==
    /\ tasks' = UpdateStatus(tasks, id, "active")
    /\ Commit(tasks', focus_sessions, daily_log, assessments)
    /\ result' = TaskOrNone(tasks', id)
    /\ UNCHANGED <<focus_sessions, daily_log, assessments>>

\* Mutant: undoing a completion also takes it back out of today's count.
uncomplete_task_takes_back(id) ==
    /\ tasks' = UpdateStatusCompleted(tasks, id, "pending", NULL)
    /\ daily_log' = IF today \in DOMAIN daily_log
                    THEN [daily_log EXCEPT ![today].tasks_completed = @ - 1]
                    ELSE daily_log
    /\ Commit(tasks', focus_sessions, daily_log', assessments)
    /\ result' = TaskOrNone(tasks', id)
    /\ UNCHANGED <<focus_sessions, assessments>>

uncomplete_task(id) ==
    /\ tasks' = UpdateStatusCompleted(tasks, id, "pending", NULL)
    /\ Commit(tasks', focus_sessions, daily_log, assessments)
    /\ result' = TaskOrNone(tasks', id)
    /\ UNCHANGED <<focus_sessions, daily_log, assessments>>

log_focus_session(task_id, minutes, raises) ==
    /\ IF ~ForeignKeyOk(tasks, task_id)
       THEN /\ result' = "IntegrityError"
            /\ UNCHANGED <<focus_sessions, daily_log, committed>>
       ELSE /\ focus_sessions' = InsertSession(focus_sessions, task_id, minutes, today)
            /\ IF raises
               THEN /\ result' = "Error"
                    /\ UNCHANGED <<daily_log, committed>>
               ELSE /\ daily_log' = UpsertFocusMinutes(daily_log, today, minutes)
                    /\ Commit(tasks, focus_sessions', daily_log', assessments)
                    /\ result' = "FocusSession"
    /\ UNCHANGED <<tasks, assessments>>

\* taken_at is datetime.now().isoformat(): the day in Spec, the clock reading
\* in SpecHistory.
save_assessment(type, score, max_score, domain_scores, taken_at) ==
    /\ assessments' = Append(assessments,
            [type |-> type, score |-> score, max_score |-> max_score,
             domain_scores |-> json_dumps(domain_scores), taken_at |-> taken_at])
    /\ Commit(tasks, focus_sessions, daily_log, assessments')
    /\ result' = "AssessmentResult"
    /\ UNCHANGED <<tasks, focus_sessions, daily_log>>

\* conn.close() followed by get_connection(): what was not committed is rolled back.
reconnect ==
    /\ tasks' = committed.tasks
    /\ focus_sessions' = committed.focus_sessions
    /\ daily_log' = committed.daily_log
    /\ assessments' = committed.assessments
    /\ UNCHANGED <<committed, result>>

\* ------------------------------------------------------------------ status
\* Mutant: an if where the loop should be.
CountBack_once(dates, check_date) == IF check_date \in dates THEN 1 ELSE 0

RECURSIVE CountBack(_, _)
\* while check_date in dates: streak += 1; check_date -= timedelta(days=1)
CountBack(dates, check_date) ==
    IF check_date \in dates THEN 1 + CountBack(dates, check_date - 1) ELSE 0

\* SELECT date FROM daily_log WHERE tasks_completed > 0
CompletionDates(log) == {d \in DOMAIN log : log[d].tasks_completed > 0}

\* Mutant: the streak may only end today.
calculate_streak_no_grace(log, day) ==
    IF day \in CompletionDates(log) THEN CountBack(CompletionDates(log), day) ELSE 0

calculate_streak(log, day) ==
    LET dates == CompletionDates(log) IN
    IF dates = {} THEN 0
    ELSE IF day \notin dates
         THEN IF (day - 1) \notin dates THEN 0 ELSE CountBack(dates, day - 1)
         ELSE CountBack(dates, day)

\* Mutant: the week is taken to start on Sunday.
week_start_sunday(day) == day - ((day + 1) % 7)

\* date.today() - timedelta(days=date.today().weekday()): the Monday of the week of
\* `day`.  Day 0 is a Monday, so weekday() is day % 7.
week_start(day) == day - (day % 7)

RECURSIVE SumTasksCompleted(_, _)
\* SUM(tasks_completed) over the rows dated in ds; COALESCE gives 0 for no row.
SumTasksCompleted(log, ds) ==
    IF ds = {} THEN 0
    ELSE LET d == CHOOSE x \in ds : TRUE
         IN  log[d].tasks_completed + SumTasksCompleted(log, ds \ {d})

RECURSIVE SumFocusMinutes(_, _)
\* SUM(focus_minutes) over the rows dated in ds.
SumFocusMinutes(log, ds) ==
    IF ds = {} THEN 0
    ELSE LET d == CHOOSE x \in ds : TRUE
         IN  log[d].focus_minutes + SumFocusMinutes(log, ds \ {d})

\* get_status: ... FROM daily_log WHERE date >= week_start
WeekRows(log, day) == {d \in DOMAIN log : d >= week_start(day)}
week_tasks_completed(log, day) == SumTasksCompleted(log, WeekRows(log, day))
week_focus_minutes(log, day) == SumFocusMinutes(log, WeekRows(log, day))

\* ------------------------------------------------- the persistence API: Spec
\* MomentumApp.__init__ / HomeScreen.__init__: no countdown, nothing scheduled.
InitUi ==
    /\ timer_running = FALSE
    /\ timer_seconds_left = 0
    /\ timer_total = 0
    /\ timer_task_id = NULL
    /\ timer_is_break = FALSE
    /\ pending_ticks = 0
    /\ timer_event = FALSE
    /\ selected_task_id = NULL
    /\ cli_pc = "idle"
    /\ cli_left = 0
    /\ cli_minutes = 0
    /\ cli_task_id = NULL
    /\ applied = [fn |-> "none"]
    /\ clock = 0

Init ==
    /\ tasks = <<>>
    /\ focus_sessions = <<>>
    /\ daily_log = <<>>
    /\ assessments = <<>>
    /\ committed = [tasks |-> <<>>, focus_sessions |-> <<>>, daily_log |-> <<>>,
                    assessments |-> <<>>]
    /\ today = 0
    /\ result = "None"
    /\ calls = 0
    /\ frontend = "api"
    /\ InitUi

\* A run is cut after MaxCalls calls (Spec) or user actions (SpecUI).
UserStep == calls < MaxCalls /\ calls' = calls + 1

Step == UserStep /\ UNCHANGED <<today, uivars>>

AddTask == \E title \in Titles, p \in {NULL} \cup TaskIdArgs : add_task(title, p) /\ Step
GetTask == \E id \in TaskIdArgs : get_task(id) /\ Step
CompleteTask ==
    \E id \in TaskIdArgs, raises \in BOOLEAN :
        /\ raises => Exists(tasks, id)
        /\ complete_task(id, raises) /\ Step
SetTaskActive == \E id \in TaskIdArgs : set_task_active(id) /\ Step
UncompleteTask == \E id \in TaskIdArgs : uncomplete_task(id) /\ Step
LogFocusSession ==
    \E id \in {NULL} \cup TaskIdArgs, m \in Minutes, raises \in BOOLEAN :
        /\ raises => ForeignKeyOk(tasks, id)
        /\ log_focus_session(id, m, raises) /\ Step
SaveAssessment ==
    \E type \in AssessmentType : save_assessment(type, 1, 1, <<>>, today) /\ Step
Reconnect == reconnect /\ Step
\* Midnight passes.
NextDay ==
    UserStep /\ today' = today + 1 /\ UNCHANGED <<dbvars, uivars>>

Next ==
    \/ AddTask
    \/ GetTask
    \/ CompleteTask
    \/ SetTaskActive
    \/ UncompleteTask
    \/ LogFocusSession
    \/ SaveAssessment
    \/ Reconnect
    \/ NextDay

Spec == Init /\ [][Next]_vars

\* ---------------------------------------------------- validated create calls
\* TaskCreate.title: Field(min_length=1, max_length=500)
title_max_length == 500
\* FocusSessionCreate.duration_minutes: Field(gt=0, le=120)
duration_le == 120

\* Mutant: the title field has lost min_length.
TaskCreate_no_min_length(title) == title <= title_max_length

\* TaskCreate(title=...) constructs (TRUE) or raises ValidationError (FALSE); a title
\* is given by its length.
TaskCreate(title) == title >= 1 /\ title <= title_max_length

\* FocusSessionCreate(duration_minutes=...) constructs or raises ValidationError.
FocusSessionCreate(duration_minutes) ==
    duration_minutes > 0 /\ duration_minutes <= duration_le

\* What callers may try to create: the lengths and durations around the limits.
TitleInputs == {0, 1, title_max_length, title_max_length + 1}
DurationInputs == {-5, 0, 1, duration_le, duration_le + 1}

\* task_in = TaskCreate(title=title, parent_id=...); db.add_task(conn, task_in)
create_task(title, parent_id) ==
    IF TaskCreate(title)
    THEN add_task(title, parent_id)
    ELSE /\ result' = "ValidationError"
         /\ UNCHANGED <<tasks, focus_sessions, daily_log, assessments, committed>>

\* session_in = FocusSessionCreate(task_id=..., duration_minutes=...);
\* db.log_focus_session(conn, session_in)
create_focus_session(task_id, duration_minutes) ==
    IF FocusSessionCreate(duration_minutes)
    THEN log_focus_session(task_id, duration_minutes, FALSE)
    ELSE /\ result' = "ValidationError"
         /\ UNCHANGED <<tasks, focus_sessions, daily_log, assessments, committed>>

CreateTask ==
    \E title \in TitleInputs, p \in {NULL} \cup TaskIdArgs : create_task(title, p) /\ Step
CreateFocusSession ==
    \E id \in {NULL} \cup TaskIdArgs, d \in DurationInputs :
        create_focus_session(id, d) /\ Step

NextCreate ==
    \/ CreateTask
    \/ CreateFocusSession

SpecCreate == Init /\ [][NextCreate]_vars

\* ------------------------------------------------------------ assessments.py
\* BDEFS_QUESTIONS: domain -> number of questions.
BDEFS_QUESTIONS ==
    [d \in {"Time Management", "Organisation & Problem-Solving", "Self-Restraint",
            "Self-Motivation", "Emotion Regulation"} |-> 3]
BDEFS_MIN_PER_ITEM == 1
BDEFS_MAX_PER_ITEM == 4
STROOP_COLOURS == {"red", "green", "blue", "yellow"}
STROOP_DEFAULT_TRIALS == 10

RECURSIVE SeqSum(_)
\* sum(scores)
SeqSum(scores) == IF scores = <<>> THEN 0 ELSE Head(scores) + SeqSum(Tail(scores))

RECURSIVE SumValues(_, _)
\* The running total over the keys ks of the dict f.
SumValues(f, ks) ==
    IF ks = {} THEN 0
    ELSE LET k == CHOOSE x \in ks : TRUE IN f[k] + SumValues(f, ks \ {k})

\* AssessmentResultCreate(...): score ge 0 and max_score gt 0, else ValidationError.
AssessmentResultCreate(assessment_type, score, max_score, domain_scores) ==
    IF score >= 0 /\ max_score > 0
    THEN [raised |-> "", assessment_type |-> assessment_type, score |-> score,
          max_score |-> max_score, domain_scores |-> domain_scores]
    ELSE [raised |-> "ValidationError"]

\* n_items * BDEFS_MAX_PER_ITEM
bdefs_max_score == SumValues(BDEFS_QUESTIONS, DOMAIN BDEFS_QUESTIONS) * BDEFS_MAX_PER_ITEM

\* Mutant: the total keeps only the domain scored last.
score_bdefs_last_domain(answers) ==
    LET domain_scores == [d \in DOMAIN answers |-> SeqSum(answers[d])]
        last == CHOOSE d \in DOMAIN answers : TRUE
    IN  AssessmentResultCreate("bdefs", domain_scores[last], bdefs_max_score, domain_scores)

score_bdefs(answers) ==
    LET domain_scores == [d \in DOMAIN answers |-> SeqSum(answers[d])]
        total == SumValues(domain_scores, DOMAIN answers)
    IN  AssessmentResultCreate("bdefs", total, bdefs_max_score, domain_scores)

\* Mutant: the bands' upper bounds are exclusive.
interpret_bdefs_exclusive(score, max_score) ==
    IF max_score = 0 THEN "ZeroDivisionError"
    ELSE IF score * 100 < 25 * max_score THEN "Minimal difficulties -- your executive functioning appears relatively strong."
    ELSE IF score * 100 < 50 * max_score THEN "Mild difficulties -- some areas may benefit from targeted strategies."
    ELSE IF score * 100 < 75 * max_score THEN "Moderate difficulties -- structured routines and support strategies are recommended."
    ELSE "Significant difficulties -- consider seeking professional assessment and support."

\* pct = score / max_score * 100, compared with 25, 50 and 75; the float tests agree
\* with the exact ones, written here without the division.
interpret_bdefs(score, max_score) ==
    IF max_score = 0 THEN "ZeroDivisionError"
    ELSE IF score * 100 <= 25 * max_score THEN "Minimal difficulties -- your executive functioning appears relatively strong."
    ELSE IF score * 100 <= 50 * max_score THEN "Mild difficulties -- some areas may benefit from targeted strategies."
    ELSE IF score * 100 <= 75 * max_score THEN "Moderate difficulties -- structured routines and support strategies are recommended."
    ELSE "Significant difficulties -- consider seeking professional assessment and support."

\* StroopResult(trials, correct, total_time_s); the time is kept in whole
\* microseconds, percentages in whole percent.
StroopResult(trials, correct, total_time_us) ==
    [trials |-> trials, correct |-> correct, total_time_us |-> total_time_us]

\* (self.correct / self.trials * 100) if self.trials else 0.0
accuracy_pct(r) == IF r.trials # 0 THEN (r.correct * 100) \div r.trials ELSE 0

\* (self.total_time_s / self.trials) if self.trials else 0.0, in microseconds
avg_time_us(r) == IF r.trials # 0 THEN r.total_time_us \div r.trials ELSE 0

\* int(result.avg_time_s * 1000)
avg_time_ms(r) == avg_time_us(r) \div 1000

score_stroop(r) ==
    AssessmentResultCreate("stroop", r.correct, r.trials,
        [k \in {"correct", "trials", "avg_time_ms"} |->
            IF k = "correct" THEN r.correct
            ELSE IF k = "trials" THEN r.trials
            ELSE avg_time_ms(r)])

\* Mutant: the speed bands' upper bounds are exclusive.
SpeedBand_exclusive(avg_ms) ==
    IF avg_ms < 1000 THEN "Your response time is fast."
    ELSE IF avg_ms < 2000 THEN "Your response time is average."
    ELSE "Your response time is on the slower side; take your time and focus on accuracy."

\* interpret_stroop's second part.
SpeedBand(avg_ms) ==
    IF avg_ms <= 1000 THEN "Your response time is fast."
    ELSE IF avg_ms <= 2000 THEN "Your response time is average."
    ELSE "Your response time is on the slower side; take your time and focus on accuracy."

\* interpret_stroop's first part: pct = correct / trials * 100 if trials else 0.
AccuracyBand(correct, trials) ==
    LET ge(p) == IF trials # 0 THEN correct * 100 >= p * trials ELSE 0 >= p
    IN  IF ge(90) THEN "Excellent accuracy -- strong inhibitory control."
        ELSE IF ge(70) THEN "Good accuracy -- inhibitory control is adequate."
        ELSE IF ge(50) THEN "Moderate accuracy -- you may benefit from impulse-management strategies."
        ELSE "Low accuracy -- inhibitory control may be an area to work on."

\* " ".join(parts), kept as the two parts in order.
interpret_stroop(correct, trials, avg_ms) ==
    <<AccuracyBand(correct, trials), SpeedBand(avg_ms)>>

\* Mutant: the ink is drawn from the whole palette.
InkChoices_any(word) == STROOP_COLOURS

\* [c for c in STROOP_COLOURS if c != word]
InkChoices(word) == STROOP_COLOURS \ {word}

\* Inputs.  Answer sets give every domain one of four triples of ratings.
AnswerTriples ==
    {<<BDEFS_MIN_PER_ITEM, BDEFS_MIN_PER_ITEM, BDEFS_MIN_PER_ITEM>>,
     <<BDEFS_MAX_PER_ITEM, BDEFS_MAX_PER_ITEM, BDEFS_MAX_PER_ITEM>>,
     <<1, 2, 4>>, <<2, 3, 3>>}
AnswerSets == [DOMAIN BDEFS_QUESTIONS -> AnswerTriples]
MaxScores == {bdefs_max_score, 8}
TrialCounts == {0, 1, 3, STROOP_DEFAULT_TRIALS}
\* Total times on which the double computation int(total_time_s / trials * 1000)
\* and the whole-number one below give the same value for every trial count drawn.
TotalTimesUs == {0, 999, 1000, 2999999, 12000000, 15000000}
AvgTimesMs == {0, 999, 1000, 1001, 2000, 2001}

\* The functions are pure: a behaviour makes one call, from the state in which
\* none has been made.
AssessFrame == UNCHANGED <<dbvars, today, calls, frontend, clock, timervars, pending_ticks,
                           timer_event, selected_task_id, clivars>>

ScoreBdefs ==
    /\ applied.fn = "none"
    /\ \E answers \in AnswerSets :
        applied' = [fn |-> "score_bdefs", answers |-> answers, value |-> score_bdefs(answers)]
    /\ AssessFrame

InterpretBdefs ==
    /\ applied.fn = "none"
    /\ \E max_score \in MaxScores :
        \E score \in 0..max_score :
            applied' = [fn |-> "interpret_bdefs", score |-> score, max_score |-> max_score,
                        value |-> interpret_bdefs(score, max_score)]
    /\ AssessFrame

ScoreStroop ==
    /\ applied.fn = "none"
    /\ \E trials \in TrialCounts, total_time_us \in TotalTimesUs :
        \E correct \in 0..trials :
            LET r == StroopResult(trials, correct, total_time_us)
            IN  applied' = [fn |-> "score_stroop", result |-> r,
                            accuracy_pct |-> accuracy_pct(r), avg_time_us |-> avg_time_us(r),
                            value |-> score_stroop(r)]
    /\ AssessFrame

InterpretStroop ==
    /\ applied.fn = "none"
    /\ \E trials \in TrialCounts, avg_ms \in AvgTimesMs :
        \E correct \in 0..trials :
            applied' = [fn |-> "interpret_stroop", correct |-> correct, trials |-> trials,
                        avg_ms |-> avg_ms, value |-> interpret_stroop(correct, trials, avg_ms)]
    /\ AssessFrame

\* generate_stroop_trials(n) is entered, n defaulting to STROOP_DEFAULT_TRIALS.  The
\* list under construction is kept as its length and the set of its elements.
GenerateStroopTrials ==
    /\ applied.fn = "none"
    /\ \E n \in TrialCounts, given \in BOOLEAN :
        /\ ~given => n = STROOP_DEFAULT_TRIALS
        /\ applied' = [fn |-> "generate_stroop_trials", n |-> n, given |-> given,
                       pc |-> "loop", len |-> 0, trials |-> {}]
    /\ AssessFrame

\* One iteration: word and ink are drawn, StroopTrial's assertion holds or raises,
\* the trial is appended.
AppendTrial ==
    /\ applied.fn = "generate_stroop_trials" /\ applied.pc = "loop"
    /\ applied.len < applied.n
    /\ \E word \in STROOP_COLOURS :
        \E ink \in InkChoices(word) :
            IF word # ink
            THEN applied' = [applied EXCEPT !.len = @ + 1,
                                            !.trials = @ \cup {[word |-> word, ink_colour |-> ink]}]
            ELSE applied' = [applied EXCEPT !.pc = "AssertionError"]
    /\ AssessFrame

\* range(n) is exhausted: return trials.
ReturnTrials ==
    /\ applied.fn = "generate_stroop_trials" /\ applied.pc = "loop"
    /\ applied.len >= applied.n
    /\ applied' = [applied EXCEPT !.pc = "returned"]
    /\ AssessFrame

NextAssess ==
    \/ ScoreBdefs
    \/ InterpretBdefs
    \/ ScoreStroop
    \/ InterpretStroop
    \/ GenerateStroopTrials
    \/ AppendTrial
    \/ ReturnTrials

SpecAssess == Init /\ [][NextAssess]_vars

\* ------------------------------------------------------- timer.run_timer
\* total_seconds = config.minutes * 60
SecondsPerMinute == 60

\* TimerConfig.minutes the CLI passes: --minutes 1 and the two defaults.
TimerMinutes == {1, 5, 15}

\* Mutant: the loop makes one iteration too many.
total_seconds_plus_one(minutes) == minutes * SecondsPerMinute + 1

total_seconds(minutes) == minutes * SecondsPerMinute

\* run_timer(config) is entered: the progress bar is set up and the loop begins.
\* left is what range(total_seconds) still has to yield, waits the time.sleep(1)
\* calls that have returned.
RunTimer ==
    /\ applied.fn = "none"
    /\ \E minutes \in TimerMinutes :
        applied' = [fn |-> "run_timer", minutes |-> minutes, pc |-> "loop",
                    left |-> total_seconds(minutes), waits |-> 0, value |-> "None"]
    /\ AssessFrame

\* time.sleep(1) returns and the bar advances.
TimerSleep ==
    /\ applied.fn = "run_timer" /\ applied.pc = "loop"
    /\ applied.left > 0
    /\ applied' = [applied EXCEPT !.left = @ - 1, !.waits = @ + 1]
    /\ AssessFrame

\* range(total_seconds) is exhausted and the with block is left.
TimerLoopEnd ==
    /\ applied.fn = "run_timer" /\ applied.pc = "loop"
    /\ applied.left = 0
    /\ applied' = [applied EXCEPT !.pc = "bell"]
    /\ AssessFrame

\* Ctrl-C inside the try block: except KeyboardInterrupt ... return False.
TimerInterrupt ==
    /\ applied.fn = "run_timer" /\ applied.pc = "loop"
    /\ applied' = [applied EXCEPT !.pc = "returned", !.value = "False"]
    /\ AssessFrame

\* The bell and the nudge are printed: return True.
TimerReturn ==
    /\ applied.fn = "run_timer" /\ applied.pc = "bell"
    /\ applied' = [applied EXCEPT !.pc = "returned", !.value = "True"]
    /\ AssessFrame

\* Ctrl-C after the try block: nothing catches it, the call raises.
TimerInterruptLate ==
    /\ applied.fn = "run_timer" /\ applied.pc = "bell"
    /\ applied' = [applied EXCEPT !.pc = "raised", !.value = "KeyboardInterrupt"]
    /\ AssessFrame

NextTimer ==
    \/ RunTimer
    \/ TimerSleep
    \/ TimerLoopEnd
    \/ TimerInterrupt
    \/ TimerReturn
    \/ TimerInterruptLate

SpecTimer == Init /\ [][NextTimer]_vars

\* time.sleep(1) returns after its second and the statements that follow the loop
\* run to their end; when the user presses Ctrl-C is up to the user.
SpecTimerLive ==
    SpecTimer /\ WF_vars(TimerSleep) /\ WF_vars(TimerLoopEnd) /\ WF_vars(TimerReturn)

\* ------------------------------------------------- the assessment history
\* _row_to_assessment(row): the id is the row's position; AssessmentType is a str
\* enum, its members are their values.
row_to_assessment(rows, id) ==
    [id |-> id, assessment_type |-> rows[id].type, score |-> rows[id].score,
     max_score |-> rows[id].max_score,
     domain_scores |-> json_loads(rows[id].domain_scores),
     taken_at |-> rows[id].taken_at]

\* list_assessments' limit when the caller gives none.
list_limit_default == 20

\* SELECT * FROM assessments [WHERE type = ?]; "None" is no filter.
Matching(rows, assessment_type) ==
    {i \in 1..Len(rows) : assessment_type = "None" \/ rows[i].type = assessment_type}

\* ... ORDER BY taken_at DESC LIMIT ?: the ids in every order the statement
\* allows; SQL leaves the order of rows with equal taken_at open.
SelectOrders(rows, ids, limit) ==
    LET n == IF limit < Cardinality(ids) THEN limit ELSE Cardinality(ids)
    IN  {q \in [1..n -> ids] :
            /\ \A i, j \in 1..n : i < j =>
                    (q[i] # q[j] /\ rows[q[i]].taken_at >= rows[q[j]].taken_at)
            /\ \A k \in ids : (\A i \in 1..n : q[i] # k) =>
                    \A i \in 1..n : rows[q[i]].taken_at >= rows[k].taken_at}

\* The AssessmentResultCreate models the callers save.
ResultInputs ==
    {AssessmentResultCreate("bdefs", 30, 60,
        <<[key |-> "Time Management", value |-> 6], [key |-> "Self-Restraint", value |-> 8]>>),
     AssessmentResultCreate("stroop", 8, 10,
        <<[key |-> "correct", value |-> 8], [key |-> "trials", value |-> 10],
          [key |-> "avg_time_ms", value |-> 1200]>>),
     AssessmentResultCreate("bdefs", 21, 60, <<>>),
     AssessmentResultCreate("stroop", 0, 10,
        <<[key |-> "b", value |-> 0 - 3], [key |-> "a", value |-> 0]>>)}
Limits == {1, 2, list_limit_default}

HistoryFrame ==
    UNCHANGED <<today, frontend, timervars, pending_ticks, timer_event, selected_task_id,
                clivars>>

\* save_assessment(conn, result_in); the clock has moved on when the call returns.
SaveResult ==
    /\ \E result_in \in ResultInputs :
        /\ save_assessment(result_in.assessment_type, result_in.score, result_in.max_score,
                           result_in.domain_scores, clock)
        /\ applied' = [fn |-> "save_assessment", result_in |-> result_in,
                       value |-> row_to_assessment(assessments', Len(assessments'))]
    /\ clock' = clock + 1
    /\ UserStep
    /\ HistoryFrame

\* list_assessments(conn, assessment_type, limit); `after` is the call it follows.
ListAssessments ==
    /\ \E assessment_type \in {"None"} \cup AssessmentType, limit \in Limits :
        \E q \in SelectOrders(assessments, Matching(assessments, assessment_type), limit) :
            applied' = [fn |-> "list_assessments", assessment_type |-> assessment_type,
                        limit |-> limit,
                        after |-> IF applied.fn = "save_assessment" THEN applied
                                  ELSE [fn |-> applied.fn],
                        value |-> [i \in 1..Len(q) |-> row_to_assessment(assessments, q[i])]]
    /\ result' = "list"
    /\ UNCHANGED <<tasks, focus_sessions, daily_log, assessments, committed, clock>>
    /\ UserStep
    /\ HistoryFrame

\* The wall clock is set back: the end of daylight saving time, a correction.
ClockSetBack ==
    /\ \E t \in 0..(clock - 1) : clock' = t
    /\ UNCHANGED <<dbvars, applied>>
    /\ UserStep
    /\ HistoryFrame

NextHistory ==
    \/ SaveResult
    \/ ListAssessments
    \/ ClockSetBack

SpecHistory == Init /\ [][NextHistory]_vars

\* The daily_log writers and the clock, the database being created on any day of
\* the week (day 0 is a Monday).
InitWeek ==
    /\ tasks = <<>>
    /\ focus_sessions = <<>>
    /\ daily_log = <<>>
    /\ assessments = <<>>
    /\ committed = [tasks |-> <<>>, focus_sessions |-> <<>>, daily_log |-> <<>>,
                    assessments |-> <<>>]
    /\ today \in 0..6
    /\ result = "None"
    /\ calls = 0
    /\ frontend = "api"
    /\ InitUi

NextWeek ==
    \/ AddTask
    \/ CompleteTask
    \/ LogFocusSession
    \/ Reconnect
    \/ NextDay

SpecWeek == InitWeek /\ [][NextWeek]_vars

\* ------------------------------------------------------------ the front-ends
Frontends == {"cli", "gui", "mobile"}

\* MomentumApp.FOCUS_DEFAULT_MINUTES / BREAK_DEFAULT_MINUTES; the mobile app and the
\* CLI's start and break defaults use the same two numbers.
FOCUS_DEFAULT_MINUTES == 15
BREAK_DEFAULT_MINUTES == 5

\* list_tasks(conn, status=...)[0] in creation order, or None when the list is empty.
FirstWithStatus(ts, status) ==
    LET ids == {i \in 1..Len(ts) : ts[i].status = status}
    IN  IF ids = {} THEN NULL ELSE CHOOSE i \in ids : \A j \in ids : i <= j

\* HomeScreen.refresh_tasks: the first row of active + pending becomes the selection.
FirstSelectable(ts) ==
    IF FirstWithStatus(ts, "active") # NULL THEN FirstWithStatus(ts, "active")
    ELSE FirstWithStatus(ts, "pending")

\* _on_timer_complete (desktop and mobile): a break only shows a message, a focus
\* countdown logs a session of _timer_total // 60 minutes.
on_timer_complete ==
    IF timer_is_break
    THEN UNCHANGED dbvars
    ELSE log_focus_session(timer_task_id, timer_total \div TicksPerMinute, FALSE)

\* The assignments _start_timer makes before it looks at the selection.
ArmTimer(minutes, is_break) ==
    /\ timer_running' = TRUE
    /\ timer_is_break' = is_break
    /\ timer_total' = minutes * TicksPerMinute

\* ---- desktop (gui.py); sel is the listbox selection, any listed task or none
GuiAddTask ==
    /\ frontend = "gui"
    /\ \E title \in Titles : add_task(title, NULL)
    /\ UserStep
    /\ UNCHANGED <<today, uivars>>

GuiCompleteTask ==
    /\ frontend = "gui"
    /\ \E sel \in 1..Len(tasks) : complete_task(sel, FALSE)
    /\ UserStep
    /\ UNCHANGED <<today, uivars>>

GuiToggleTask ==
    /\ frontend = "gui"
    /\ \E sel \in 1..Len(tasks) :
        IF tasks[sel].status = "done"
        THEN uncomplete_task(sel)
        ELSE complete_task(sel, FALSE)
    /\ UserStep
    /\ UNCHANGED <<today, uivars>>

GuiBreakDown ==
    /\ frontend = "gui"
    /\ \E title \in Titles, sel \in 1..Len(tasks) : add_task(title, sel)
    /\ UserStep
    /\ UNCHANGED <<today, uivars>>

\* _on_focus / _on_break -> _start_timer, which ends by calling _tick() itself:
\* that first tick finds seconds_left = total > 0, decrements it and schedules the next.
\* Mutant: _start_timer without its check of _timer_running.
GuiStartTimer_restart(minutes, is_break) ==
    /\ frontend = "gui"
    /\ ArmTimer(minutes, is_break)
    /\ \E sel \in {NULL} \cup 1..Len(tasks) :
        IF ~is_break /\ sel # NULL
        THEN timer_task_id' = sel /\ set_task_active(sel)
        ELSE timer_task_id' = NULL /\ UNCHANGED dbvars
    /\ timer_seconds_left' = timer_total' - 1
    /\ pending_ticks' = pending_ticks + 1
    /\ UserStep
    /\ UNCHANGED <<today, frontend, applied, clock, timer_event, selected_task_id, clivars>>

GuiStartTimer(minutes, is_break) ==
    /\ frontend = "gui"
    /\ IF timer_running
       THEN UNCHANGED <<dbvars, timervars, pending_ticks>>
       ELSE /\ ArmTimer(minutes, is_break)
            /\ \E sel \in {NULL} \cup 1..Len(tasks) :
                IF ~is_break /\ sel # NULL
                THEN timer_task_id' = sel /\ set_task_active(sel)
                ELSE timer_task_id' = NULL /\ UNCHANGED dbvars
            /\ timer_seconds_left' = timer_total' - 1
            /\ pending_ticks' = pending_ticks + 1
    /\ UserStep
    /\ UNCHANGED <<today, frontend, applied, clock, timer_event, selected_task_id, clivars>>

GuiFocus == GuiStartTimer(FOCUS_DEFAULT_MINUTES, FALSE)
GuiBreak == GuiStartTimer(BREAK_DEFAULT_MINUTES, TRUE)

\* One scheduled after-callback runs _tick.
GuiTick ==
    /\ frontend = "gui"
    /\ pending_ticks > 0
    /\ IF ~timer_running
       THEN /\ pending_ticks' = pending_ticks - 1
            /\ UNCHANGED <<dbvars, timervars>>
       ELSE IF timer_seconds_left <= 0
       THEN /\ timer_running' = FALSE
            /\ pending_ticks' = pending_ticks - 1
            /\ on_timer_complete
            /\ UNCHANGED <<timer_seconds_left, timer_total, timer_task_id, timer_is_break>>
       ELSE /\ timer_seconds_left' = timer_seconds_left - 1
            /\ UNCHANGED <<dbvars, pending_ticks, timer_running, timer_total,
                           timer_task_id, timer_is_break>>
    /\ UNCHANGED <<today, calls, frontend, applied, clock, timer_event, selected_task_id, clivars>>

GuiStopTimer ==
    /\ frontend = "gui"
    /\ timer_running' = FALSE
    /\ UserStep
    /\ UNCHANGED <<dbvars, today, frontend, applied, clock, timer_seconds_left, timer_total,
                   timer_task_id, timer_is_break, pending_ticks, timer_event,
                   selected_task_id, clivars>>

\* ---- mobile (mobile/main.py)
MobileFrame == UNCHANGED <<today, frontend, applied, clock, pending_ticks, clivars>>

\* show_add_dialog's on_add, then refresh_all.
MobileAddTask ==
    /\ frontend = "mobile"
    /\ \E title \in Titles : add_task(title, NULL)
    /\ selected_task_id' = FirstSelectable(tasks')
    /\ UNCHANGED <<timervars, timer_event>>
    /\ UserStep
    /\ MobileFrame

\* show_breakdown_dialog's on_add: the parent is the selected task.
MobileBreakDown ==
    /\ frontend = "mobile"
    /\ selected_task_id # NULL
    /\ Exists(tasks, selected_task_id)
    /\ \E title \in Titles : add_task(title, selected_task_id)
    /\ selected_task_id' = FirstSelectable(tasks')
    /\ UNCHANGED <<timervars, timer_event>>
    /\ UserStep
    /\ MobileFrame

\* TaskRow.on_complete on one of the listed (active or pending) rows.
MobileCompleteTask ==
    /\ frontend = "mobile"
    /\ \E id \in 1..Len(tasks) :
        /\ tasks[id].status \in {"active", "pending"}
        /\ complete_task(id, FALSE)
    /\ selected_task_id' = FirstSelectable(tasks')
    /\ UNCHANGED <<timervars, timer_event>>
    /\ UserStep
    /\ MobileFrame

MobileStartTimer(minutes, is_break) ==
    /\ frontend = "mobile"
    /\ IF timer_running
       THEN UNCHANGED <<dbvars, timervars, timer_event, selected_task_id>>
       ELSE /\ ArmTimer(minutes, is_break)
            /\ timer_seconds_left' = timer_total'
            /\ IF ~is_break /\ selected_task_id # NULL
               THEN /\ timer_task_id' = selected_task_id
                    /\ set_task_active(selected_task_id)
                    /\ selected_task_id' = FirstSelectable(tasks')
               ELSE /\ timer_task_id' = NULL
                    /\ UNCHANGED <<dbvars, selected_task_id>>
            /\ timer_event' = TRUE
    /\ UserStep
    /\ MobileFrame

MobileFocus == MobileStartTimer(FOCUS_DEFAULT_MINUTES, FALSE)
MobileBreak == MobileStartTimer(BREAK_DEFAULT_MINUTES, TRUE)

\* The Clock interval fires _tick.
MobileTick ==
    /\ frontend = "mobile"
    /\ timer_event
    /\ IF ~timer_running
       THEN /\ timer_event' = FALSE
            /\ UNCHANGED <<dbvars, timervars>>
       ELSE IF timer_seconds_left <= 0
       THEN /\ timer_running' = FALSE
            /\ timer_event' = FALSE
            /\ on_timer_complete
            /\ UNCHANGED <<timer_seconds_left, timer_total, timer_task_id, timer_is_break>>
       ELSE /\ timer_seconds_left' = timer_seconds_left - 1
            /\ UNCHANGED <<dbvars, timer_event, timer_running, timer_total,
                           timer_task_id, timer_is_break>>
    /\ UNCHANGED <<selected_task_id, calls>>
    /\ MobileFrame

MobileStopTimer ==
    /\ frontend = "mobile"
    /\ timer_running' = FALSE
    /\ timer_event' = FALSE
    /\ UNCHANGED <<dbvars, timer_seconds_left, timer_total, timer_task_id,
                   timer_is_break, selected_task_id>>
    /\ UserStep
    /\ MobileFrame

\* ---- CLI (cli.py, timer.py); one command at a time, each on its own connection
CliFrame ==
    UNCHANGED <<today, frontend, applied, clock, timervars, pending_ticks, timer_event,
                selected_task_id>>

\* cli_pc while run_timer runs for focus, start or a break.
TimerPcs == {"focus", "start", "break"}

\* run_timer is entered: total_seconds = minutes * 60 waits lie ahead.
EnterTimer(pc, minutes, task_id) ==
    /\ cli_pc' = pc
    /\ cli_left' = minutes * TicksPerMinute
    /\ cli_minutes' = minutes
    /\ cli_task_id' = task_id

LeaveTimer ==
    /\ cli_pc' = "idle"
    /\ cli_left' = 0
    /\ cli_minutes' = 0
    /\ cli_task_id' = NULL

CliAdd ==
    /\ frontend = "cli" /\ cli_pc = "idle"
    /\ \E title \in Titles : add_task(title, NULL)
    /\ UNCHANGED clivars
    /\ UserStep
    /\ CliFrame

\* break-down task_id: an unknown task ends the command; otherwise the prompt loop
\* starts with parent = the task, sub-task or not.
CliBreakDown ==
    /\ frontend = "cli" /\ cli_pc = "idle"
    /\ \E task_id \in TaskIdArgs :
        /\ get_task(task_id)
        /\ IF Exists(tasks, task_id)
           THEN /\ cli_pc' = "break-down"
                /\ cli_task_id' = task_id
                /\ UNCHANGED <<cli_left, cli_minutes>>
           ELSE UNCHANGED clivars
    /\ UserStep
    /\ CliFrame

\* One answer to the "Sub-step" prompt: an empty line ends the loop, anything else
\* is added as a task with parent_id = parent.id.
CliSubStep ==
    /\ frontend = "cli" /\ cli_pc = "break-down"
    /\ \E empty \in BOOLEAN :
        IF empty
        THEN LeaveTimer /\ UNCHANGED dbvars
        ELSE (\E title \in Titles : add_task(title, cli_task_id)) /\ UNCHANGED clivars
    /\ UserStep
    /\ CliFrame

CliDone ==
    /\ frontend = "cli" /\ cli_pc = "idle"
    /\ \E task_id \in TaskIdArgs : complete_task(task_id, FALSE)
    /\ UNCHANGED clivars
    /\ UserStep
    /\ CliFrame

\* focus --minutes m --task t: an unknown task ends the command, a known one is set
\* active whatever its status; then the countdown runs.
CliFocus ==
    /\ frontend = "cli" /\ cli_pc = "idle"
    /\ \E minutes \in Minutes, task_id \in {NULL} \cup TaskIdArgs :
        IF task_id # NULL /\ ~Exists(tasks, task_id)
        THEN get_task(task_id) /\ UNCHANGED clivars
        ELSE /\ IF task_id # NULL THEN set_task_active(task_id) ELSE UNCHANGED dbvars
             /\ EnterTimer("focus", minutes, task_id)
    /\ UserStep
    /\ CliFrame

CliTakeBreak ==
    /\ frontend = "cli" /\ cli_pc = "idle"
    /\ EnterTimer("break", BREAK_DEFAULT_MINUTES, NULL)
    /\ UNCHANGED dbvars
    /\ UserStep
    /\ CliFrame

\* start: continue the first active task, else start the first pending one, else add
\* "one small thing" (CliStartActivate then sets it active); each answer of the user
\* is an input.
CliStart ==
    /\ frontend = "cli" /\ cli_pc = "idle"
    /\ \E cont \in BOOLEAN, go \in BOOLEAN, thing \in BOOLEAN :
        LET active == FirstWithStatus(tasks, "active")
            pending == FirstWithStatus(tasks, "pending")
        IN  IF active # NULL /\ cont
            THEN /\ EnterTimer("start", FOCUS_DEFAULT_MINUTES, active)
                 /\ UNCHANGED dbvars
            ELSE IF pending # NULL /\ go
            THEN /\ set_task_active(pending)
                 /\ EnterTimer("start", FOCUS_DEFAULT_MINUTES, pending)
            ELSE IF pending = NULL /\ thing
            THEN /\ \E title \in Titles : add_task(title, NULL)
                 /\ cli_pc' = "added"
                 /\ cli_task_id' = Len(tasks) + 1
                 /\ UNCHANGED <<cli_left, cli_minutes>>
            ELSE UNCHANGED <<dbvars, clivars>>
    /\ UserStep
    /\ CliFrame

\* start, after db.add_task: db.set_task_active(conn, task.id), then the countdown
\* if the user wants it.
CliStartActivate ==
    /\ frontend = "cli" /\ cli_pc = "added"
    /\ set_task_active(cli_task_id)
    /\ \E focus_it \in BOOLEAN :
        IF focus_it
        THEN EnterTimer("start", FOCUS_DEFAULT_MINUTES, cli_task_id)
        ELSE LeaveTimer
    /\ UNCHANGED calls
    /\ CliFrame

\* time.sleep(1) returns; the loop goes on.
CliSleep ==
    /\ frontend = "cli" /\ cli_pc \in TimerPcs
    /\ cli_left > 0
    /\ cli_left' = cli_left - 1
    /\ UNCHANGED <<dbvars, cli_pc, cli_minutes, cli_task_id, calls>>
    /\ CliFrame

\* Mutant: the session is logged without looking at what run_focus returned.
CliInterrupt_logs ==
    /\ frontend = "cli" /\ cli_pc # "idle"
    /\ LeaveTimer
    /\ IF cli_pc = "focus"
       THEN log_focus_session(cli_task_id, cli_minutes, FALSE)
       ELSE UNCHANGED dbvars
    /\ UserStep
    /\ CliFrame

\* Ctrl-C: run_timer returns False (or the command dies); nothing is logged.
CliInterrupt ==
    /\ frontend = "cli" /\ cli_pc # "idle"
    /\ LeaveTimer
    /\ UNCHANGED dbvars
    /\ UserStep
    /\ CliFrame

\* The loop is over: run_timer returns True.  focus and start log the session;
\* focus then offers the default break.
CliTimerDone ==
    /\ frontend = "cli" /\ cli_pc \in TimerPcs
    /\ cli_left = 0
    /\ IF cli_pc = "break"
       THEN LeaveTimer /\ UNCHANGED dbvars
       ELSE /\ log_focus_session(cli_task_id, cli_minutes, FALSE)
            /\ \E should_break \in BOOLEAN :
                IF cli_pc = "focus" /\ should_break
                THEN EnterTimer("break", BREAK_DEFAULT_MINUTES, NULL)
                ELSE LeaveTimer
    /\ UNCHANGED calls
    /\ CliFrame

InitUI ==
    /\ tasks = <<>>
    /\ focus_sessions = <<>>
    /\ daily_log = <<>>
    /\ assessments = <<>>
    /\ committed = [tasks |-> <<>>, focus_sessions |-> <<>>, daily_log |-> <<>>,
                    assessments |-> <<>>]
    /\ today = 0
    /\ result = "None"
    /\ calls = 0
    /\ frontend \in Frontends
    /\ InitUi

NextUI ==
    \/ GuiAddTask
    \/ GuiCompleteTask
    \/ GuiToggleTask
    \/ GuiBreakDown
    \/ GuiFocus
    \/ GuiBreak
    \/ GuiTick
    \/ GuiStopTimer
    \/ MobileAddTask
    \/ MobileBreakDown
    \/ MobileCompleteTask
    \/ MobileFocus
    \/ MobileBreak
    \/ MobileTick
    \/ MobileStopTimer
    \/ CliAdd
    \/ CliBreakDown
    \/ CliSubStep
    \/ CliDone
    \/ CliFocus
    \/ CliTakeBreak
    \/ CliStart
    \/ CliStartActivate
    \/ CliSleep
    \/ CliInterrupt
    \/ CliTimerDone

SpecUI == InitUI /\ [][NextUI]_vars

\* ---------------------------------------------------- the image worker
\* _FALLBACK_PHOTOS / the ids of IMAGES.md without duplicates: seven photo ids,
\* numbered in the order in which random.choice first returns them.
PEACEFUL_PHOTOS == 1..7
\* attempts = min(5, len(_PEACEFUL_PHOTOS))
MaxAttempts == 5
attempts == IF MaxAttempts < Cardinality(PEACEFUL_PHOTOS) THEN MaxAttempts
            ELSE Cardinality(PEACEFUL_PHOTOS)

\* Mutant: the check against `tried` is gone.
AlreadyTried_never(tried, photo_id) == FALSE

\* if photo_id in tried: continue
AlreadyTried(tried, photo_id) == photo_id \in tried

\* threading.Thread(target=self._fetch_image / self._fetch_banner).start(), once per
\* run (MomentumApp.__init__; HomeScreen.on_enter behind _banner_loaded).
\* i counts the iterations of the loop, fetches the urlopen calls, handed the
\* images passed to root.after / Clock.schedule_once, shown the callbacks run.
StartWorker ==
    /\ frontend \in {"gui", "mobile"}
    /\ applied.fn = "none"
    /\ applied' = [fn |-> "_fetch_image", pc |-> "loop", i |-> 0, tried |-> {},
                   fetches |-> 0, handed |-> 0, shown |-> 0]
    /\ AssessFrame

\* random.choice(_PEACEFUL_PHOTOS): any photo returned before, or the next new one.
Choices(tried) == {photo_id \in PEACEFUL_PHOTOS : photo_id <= Cardinality(tried) + 1}

\* One iteration of the worker's loop: a photo already tried is skipped; otherwise
\* it is fetched, and either the image is handed to the main thread and the worker
\* returns, or an exception (timeout, HTTP, decoding, scheduling) is logged.
WorkerIterate ==
    /\ applied.fn = "_fetch_image" /\ applied.pc = "loop"
    /\ applied.i < attempts
    /\ \E photo_id \in Choices(applied.tried), ok \in BOOLEAN :
        IF AlreadyTried(applied.tried, photo_id)
        THEN applied' = [applied EXCEPT !.i = @ + 1]
        ELSE IF ok
        THEN applied' = [applied EXCEPT !.tried = @ \cup {photo_id}, !.fetches = @ + 1,
                                        !.handed = @ + 1, !.pc = "done"]
        ELSE applied' = [applied EXCEPT !.tried = @ \cup {photo_id}, !.fetches = @ + 1,
                                        !.i = @ + 1]
    /\ AssessFrame

\* The loop is over without an image: the desktop logs a warning, the mobile app
\* hands a plain banner to the main thread.
WorkerGiveUp ==
    /\ applied.fn = "_fetch_image" /\ applied.pc = "loop"
    /\ applied.i >= attempts
    /\ applied' = [applied EXCEPT !.pc = "done",
                                  !.handed = IF frontend = "mobile" THEN @ + 1 ELSE @]
    /\ AssessFrame

\* The main thread runs the scheduled _set_image / _set_banner.
SetImage ==
    /\ applied.fn = "_fetch_image"
    /\ applied.shown < applied.handed
    /\ applied' = [applied EXCEPT !.shown = @ + 1]
    /\ AssessFrame

InitImage == InitUI /\ frontend \in {"gui", "mobile"}

\* The worker beside the main thread's countdown.
NextImage ==
    \/ StartWorker
    \/ WorkerIterate
    \/ WorkerGiveUp
    \/ SetImage
    \/ GuiFocus
    \/ GuiTick
    \/ MobileFocus
    \/ MobileTick

SpecImage == InitImage /\ [][NextImage]_vars

\* urlopen has a timeout of 8 seconds, so every iteration ends; the thread is
\* scheduled.
SpecImageLive == SpecImage /\ WF_vars(WorkerIterate) /\ WF_vars(WorkerGiveUp)

\* ---------------------------------------------------- the Stroop session
\* MomentumApp._on_stroop (desktop) and StroopScreen (mobile).  The session's state
\* is idx and correct of `state`, the trial on display (NULL for none), the
\* scheduled _show_trial callbacks, and whether the test window still exists;
\* blind counts the answers taken for a trial that was not on display.  Every
\* answer is taken to have needed one second.
StroopFrame ==
    UNCHANGED <<today, calls, frontend, clock, timervars, pending_ticks, timer_event,
                selected_task_id, clivars>>

AnswerTimeUs == 1000000

\* _finish: the result is scored and saved.  On the desktop win.destroy() then
\* deletes the window's scheduled callbacks; the mobile screen stays, its word
\* cleared.
StroopFinish(st) ==
    LET c == score_stroop(StroopResult(st.n, st.correct, st.idx * AnswerTimeUs))
    IN  /\ save_assessment("stroop", c.score, c.max_score,
                <<[key |-> "correct", value |-> c.domain_scores["correct"]],
                  [key |-> "trials", value |-> c.domain_scores["trials"]],
                  [key |-> "avg_time_ms", value |-> c.domain_scores["avg_time_ms"]]>>,
                today)
        /\ applied' = IF frontend = "gui"
                      THEN [st EXCEPT !.open = FALSE, !.pending = 0, !.displayed = NULL]
                      ELSE [st EXCEPT !.displayed = NULL]

\* _show_trial with the session in state st.
StroopShow(st) ==
    IF st.idx >= st.n
    THEN StroopFinish(st)
    ELSE applied' = [st EXCEPT !.displayed = st.idx] /\ UNCHANGED dbvars

\* The test is opened: generate_stroop_trials() and a fresh state; the desktop
\* shows the first trial at once, the mobile screen first shows its instructions.
StroopOpen ==
    /\ frontend \in {"gui", "mobile"}
    /\ applied.fn = "none"
    /\ LET st == [fn |-> "stroop", n |-> STROOP_DEFAULT_TRIALS, idx |-> 0, correct |-> 0,
                  pending |-> 0, displayed |-> NULL, blind |-> 0, open |-> TRUE,
                  begun |-> frontend = "gui"]
       IN  IF frontend = "gui" THEN StroopShow(st)
           ELSE applied' = st /\ UNCHANGED dbvars
    /\ StroopFrame

\* Mobile: Start on the instructions popup.
StroopBegin ==
    /\ applied.fn = "stroop" /\ ~applied.begun
    /\ StroopShow([applied EXCEPT !.begun = TRUE])
    /\ StroopFrame

\* Return in the entry: _on_submit / on_answer.  The desktop ignores an empty entry
\* and fails on trials[idx] past the last trial; the mobile screen returns past the
\* last trial and takes an empty text for a wrong answer.  The next trial is
\* scheduled, the entry keeps its text until then.
StroopSubmit ==
    /\ applied.fn = "stroop" /\ applied.begun /\ applied.open
    /\ \E answer \in {"", "right", "wrong"} :
        IF (frontend = "gui" /\ answer = "") \/ applied.idx >= applied.n
        THEN UNCHANGED applied
        ELSE applied' = [applied EXCEPT
                !.correct = IF answer = "right" THEN @ + 1 ELSE @,
                !.blind = IF applied.displayed # applied.idx THEN @ + 1 ELSE @,
                !.idx = @ + 1,
                !.pending = @ + 1]
    /\ UNCHANGED dbvars
    /\ StroopFrame

\* A scheduled callback runs _show_trial.
StroopShowTrial ==
    /\ applied.fn = "stroop"
    /\ applied.pending > 0
    /\ StroopShow([applied EXCEPT !.pending = @ - 1])
    /\ StroopFrame

NextStroop ==
    \/ StroopOpen
    \/ StroopBegin
    \/ StroopSubmit
    \/ StroopShowTrial

SpecStroop == InitImage /\ [][NextStroop]_vars

\* ------------------------------------------------------------------ claims
\* What get_status reports as streak_days.
streak_days == calculate_streak(daily_log, today)

TasksCompleted(log, d) == get_daily_log(log, d).tasks_completed
FocusMinutes(log, d) == get_daily_log(log, d).focus_minutes
OtherDatesUnchanged ==
    /\ DOMAIN daily_log' = DOMAIN daily_log \cup {today}
    /\ \A d \in DOMAIN daily_log \ {today} : daily_log'[d] = daily_log[d]
TablesUnchanged ==
    UNCHANGED <<tasks, focus_sessions, daily_log, assessments, committed>>

\* C1: complete_task on an id that names no task returns None and leaves every
\* daily_log row as it was (no increment, no row created for today).
C1_UnknownIdLeavesLog ==
    [][\A id \in TaskIdArgs :
        (~Exists(tasks, id) /\ complete_task(id, FALSE))
            => (result' = "None" /\ daily_log' = daily_log)]_vars

RECURSIVE MinutesOn(_, _, _)
\* Sum of duration_minutes of the rows ss[from..] completed on day d.
MinutesOn(ss, from, d) ==
    IF from > Len(ss) THEN 0
    ELSE (IF ss[from].completed_at = d THEN ss[from].duration_minutes ELSE 0)
         + MinutesOn(ss, from + 1, d)

RECURSIVE SumCompleted(_, _)
SumCompleted(log, ds) ==
    IF ds = {} THEN 0
    ELSE LET d == CHOOSE x \in ds : TRUE
         IN  log[d].tasks_completed + SumCompleted(log, ds \ {d})

\* Task rows that the file shows as written by complete_task's UPDATE after the step
\* and did not show so before it.
BecameDone(before, after) ==
    {i \in 1..Len(before.tasks) :
        after.tasks[i].status = "done" /\ after.tasks[i] # before.tasks[i]}

\* C2: the row write of complete_task / log_focus_session and its daily_log upsert
\* reach the database file together: whenever a step makes such a row write visible
\* in the file, the same step makes the matching daily_log change visible.
C2_WritesVisibleTogether ==
    [][/\ Cardinality(BecameDone(committed, committed'))
            <= SumCompleted(committed'.daily_log, DOMAIN committed'.daily_log)
               - SumCompleted(committed.daily_log, DOMAIN committed.daily_log)
       /\ \A d \in 0..today :
            MinutesOn(committed'.focus_sessions, Len(committed.focus_sessions) + 1, d)
                = FocusMinutes(committed'.daily_log, d) - FocusMinutes(committed.daily_log, d)
      ]_vars

\* C3: complete_task on a stored task returns it with status done and completed_at
\* set, adds exactly 1 to today's tasks_completed (a new row is (1, 0)), and leaves
\* today's focus_minutes and every other date's row unchanged.
C3_CompleteTask ==
    [][\A id \in TaskIdArgs :
        (Exists(tasks, id) /\ complete_task(id, FALSE)) =>
            /\ result' = "Task"
            /\ tasks'[id].status = "done"
            /\ tasks'[id].completed_at = today
            /\ tasks'[id].completed_at # NULL
            /\ today \in DOMAIN daily_log'
            /\ daily_log'[today].tasks_completed = TasksCompleted(daily_log, today) + 1
            /\ daily_log'[today].focus_minutes = FocusMinutes(daily_log, today)
            /\ today \notin DOMAIN daily_log =>
                    daily_log'[today] = [tasks_completed |-> 1, focus_minutes |-> 0]
            /\ OtherDatesUnchanged]_vars

C3_Witness ==
    /\ result = "Task"
    /\ \E i \in 1..Len(tasks) : tasks[i].status = "done" /\ tasks[i].completed_at = today
    /\ today \in DOMAIN daily_log
    /\ daily_log[today] = [tasks_completed |-> 1, focus_minutes |-> 0]
    /\ \E d \in DOMAIN daily_log : d # today

\* C4: every log_focus_session call that returns adds exactly its duration to
\* today's focus_minutes (creating the row (0, duration) when there is none) and
\* leaves tasks_completed and the other dates alone, and nothing else ever changes
\* a focus_minutes value; so today's focus_minutes is the sum of the durations of
\* the calls that returned today.
C4_FocusMinutesAccumulate ==
    [][/\ \A id \in {NULL} \cup TaskIdArgs, m \in Minutes :
            (ForeignKeyOk(tasks, id) /\ log_focus_session(id, m, FALSE)) =>
                /\ result' = "FocusSession"
                /\ today \in DOMAIN daily_log'
                /\ daily_log'[today].focus_minutes = FocusMinutes(daily_log, today) + m
                /\ daily_log'[today].tasks_completed = TasksCompleted(daily_log, today)
                /\ OtherDatesUnchanged
       /\ (\E d \in 0..today : FocusMinutes(daily_log', d) # FocusMinutes(daily_log, d))
            => \E id \in {NULL} \cup TaskIdArgs, m \in Minutes :
                    log_focus_session(id, m, FALSE)
      ]_vars

C4_Witness ==
    /\ result = "FocusSession"
    /\ Len(focus_sessions) = 2
    /\ focus_sessions[1].duration_minutes = 10 /\ focus_sessions[1].completed_at = today
    /\ focus_sessions[2].duration_minutes = 15 /\ focus_sessions[2].completed_at = today
    /\ today \in DOMAIN daily_log
    /\ daily_log[today] = [tasks_completed |-> 0, focus_minutes |-> 25]

HasCompletion(d) == d \in DOMAIN daily_log /\ daily_log[d].tasks_completed > 0

\* C5: streak_days is 0 when neither today nor yesterday has a completion;
\* otherwise it is the length of the run of consecutive dates with a completion that
\* ends at today if today has one, else at yesterday.  Today and yesterday alone give
\* 2, a completion two days ago alone gives 0, an empty log gives 0.
C5_Streak ==
    LET end == IF HasCompletion(today) THEN today ELSE today - 1 IN
    /\ (~HasCompletion(today) /\ ~HasCompletion(today - 1)) => streak_days = 0
    /\ (HasCompletion(today) \/ HasCompletion(today - 1)) =>
            /\ streak_days >= 1
            /\ \A k \in 0..(streak_days - 1) : HasCompletion(end - k)
            /\ ~HasCompletion(end - streak_days)
    /\ CompletionDates(daily_log) = {today, today - 1} => streak_days = 2
    /\ CompletionDates(daily_log) = {today - 2} => streak_days = 0
    /\ daily_log = <<>> => streak_days = 0

C5_Witness ==
    /\ today = 2
    /\ CompletionDates(daily_log) = {0, 1}
    /\ streak_days = 2

Grace == ~HasCompletion(today) /\ HasCompletion(today - 1)
\* A stored task is completed on a grace day.
CompletionLaterToday ==
    /\ Grace
    /\ \E id \in TaskIdArgs : Exists(tasks, id) /\ complete_task(id, FALSE)
    /\ today' = today

\* C6 as stated: on a grace day the streak reads as the run ending yesterday, and a
\* completion made later that day leaves the streak value as it was.
C6_GraceNotExtended ==
    [][/\ Grace => streak_days = CountBack(CompletionDates(daily_log), today - 1)
       /\ CompletionLaterToday
            => calculate_streak(daily_log', today') = streak_days]_vars

\* C6 amended: on a grace day (no completion today, one yesterday) the streak reads
\* as the run ending yesterday, so at least 1; a completion made later that day
\* raises the streak value by exactly one.
C6_GraceThenExtended ==
    [][/\ Grace => /\ streak_days = CountBack(CompletionDates(daily_log), today - 1)
                   /\ streak_days >= 1
       /\ CompletionLaterToday
            => calculate_streak(daily_log', today') = streak_days + 1]_vars

C6_Witness ==
    /\ today >= 1
    /\ HasCompletion(today) /\ HasCompletion(today - 1)
    /\ daily_log[today].tasks_completed = 1
    /\ streak_days = today + 1
    /\ streak_days >= 2

\* C9: get_task, set_task_active and uncomplete_task on an id that names no task
\* return None and leave the tasks table and daily_log as the caller sees them
\* unchanged.
C9_UnknownIdNotFound ==
    [][\A id \in TaskIdArgs :
        (~Exists(tasks, id) /\ (get_task(id) \/ set_task_active(id) \/ uncomplete_task(id)))
            => (result' = "None" /\ tasks' = tasks /\ daily_log' = daily_log)]_vars

\* No daily_log row, so no complete_task has returned: the None comes from
\* get_task, set_task_active or uncomplete_task called after the tasks were added.
C9_Witness ==
    /\ result = "None"
    /\ Len(tasks) = 2
    /\ tasks[1].status = "active"
    /\ daily_log = <<>>

\* C10: log_focus_session with a task_id, or add_task with a parent_id, that names
\* no stored task raises and changes no table: no row is inserted, and daily_log and
\* the stored tasks, focus sessions and assessments stay as they were.
C10_FailedInsertChangesNothing ==
    [][/\ \A id \in TaskIdArgs, m \in Minutes :
            (~Exists(tasks, id) /\ log_focus_session(id, m, FALSE))
                => (result' = "IntegrityError" /\ TablesUnchanged)
       /\ \A p \in TaskIdArgs :
            (~Exists(tasks, p) /\ \E title \in Titles : add_task(title, p))
                => (result' = "IntegrityError" /\ TablesUnchanged)]_vars

C10_Witness ==
    /\ result = "IntegrityError"
    /\ Len(tasks) = 1
    /\ Len(assessments) = 1
    /\ focus_sessions = <<>>
    /\ daily_log = <<>>

\* The step in which a focus countdown reaches its natural end: the desktop or mobile
\* tick that finds a running focus countdown at zero, or run_timer's loop of a CLI
\* focus or start command finishing all its waits.
NaturalEnd ==
    \/ /\ frontend \in {"gui", "mobile"}
       /\ timer_running /\ ~timer_is_break /\ timer_seconds_left = 0
       /\ ~timer_running'
    \/ /\ frontend = "cli"
       /\ cli_pc \in {"focus", "start"} /\ cli_left = 0

\* The step stops or interrupts a countdown before its end (Stop, Ctrl-C).
StoppedEarly ==
    \/ timer_running /\ ~timer_running' /\ timer_seconds_left > 0
    \/ cli_pc \in TimerPcs /\ cli_left > 0 /\ cli_pc' = "idle"

\* C7: a focus_sessions row is created, and today's focus_minutes raised by its
\* minutes, only in the step in which a focus countdown reaches its natural end; a
\* step that stops or interrupts a countdown, and the end of a break countdown,
\* create none.
C7_LoggedOnlyAtNaturalEnd ==
    [][/\ focus_sessions' # focus_sessions =>
            /\ NaturalEnd
            /\ Len(focus_sessions') = Len(focus_sessions) + 1
            /\ SubSeq(focus_sessions', 1, Len(focus_sessions)) = focus_sessions
            /\ FocusMinutes(daily_log', today)
                 = FocusMinutes(daily_log, today)
                   + focus_sessions'[Len(focus_sessions')].duration_minutes
       /\ FocusMinutes(daily_log', today) # FocusMinutes(daily_log, today)
            => focus_sessions' # focus_sessions
       /\ StoppedEarly => focus_sessions' = focus_sessions
       /\ (timer_running /\ timer_is_break /\ ~timer_running')
            => focus_sessions' = focus_sessions
       /\ (cli_pc = "break" /\ cli_pc' # "break") => focus_sessions' = focus_sessions
      ]_vars

\* A desktop focus countdown on task 1 was stopped and a second one then ran to its
\* end: exactly one session, of the default 15 minutes, is logged.
C7_Witness ==
    /\ frontend = "gui"
    /\ Len(focus_sessions) = 1
    /\ focus_sessions[1].duration_minutes = FOCUS_DEFAULT_MINUTES
    /\ focus_sessions[1].task_id = 1
    /\ ~timer_running /\ ~timer_is_break /\ timer_seconds_left = 0
    /\ pending_ticks = 1
    /\ FocusMinutes(daily_log, today) = FOCUS_DEFAULT_MINUTES

\* C8: a task is created pending, and its status afterwards changes only along
\* pending -> active, pending -> done, active -> done and done -> pending.
C8_Lifecycle ==
    [][/\ \A i \in 1..Len(tasks) :
            tasks'[i].status # tasks[i].status =>
                <<tasks[i].status, tasks'[i].status>> \in
                    {<<"pending", "active">>, <<"pending", "done">>,
                     <<"active", "done">>, <<"done", "pending">>}
       /\ \A i \in (Len(tasks) + 1)..Len(tasks') : tasks'[i].status = "pending"
      ]_vars

\* C11: uncomplete_task on a stored task returns it with status pending and
\* completed_at cleared, and changes nothing else: the task's other columns, every
\* other task, every daily_log row (today's tasks_completed is not taken back), the
\* focus sessions and the assessments stay as they were.
C11_UncompleteTask ==
    [][\A id \in TaskIdArgs :
        (Exists(tasks, id) /\ uncomplete_task(id)) =>
            /\ result' = "Task"
            /\ Len(tasks') = Len(tasks)
            /\ tasks'[id] = [tasks[id] EXCEPT !.status = "pending", !.completed_at = NULL]
            /\ \A i \in 1..Len(tasks) : i # id => tasks'[i] = tasks[i]
            /\ daily_log' = daily_log
            /\ focus_sessions' = focus_sessions
            /\ assessments' = assessments]_vars

\* Task 1 was completed today and then reverted: it is pending again with no
\* completed_at while today's row still counts the completion.
C11_Witness ==
    /\ result = "Task"
    /\ Len(tasks) = 1
    /\ tasks[1].status = "pending" /\ tasks[1].completed_at = NULL
    /\ today \in DOMAIN daily_log
    /\ daily_log[today].tasks_completed = 1
    /\ committed.tasks = tasks /\ committed.daily_log = daily_log

RECURSIVE TasksCompletedFrom(_, _, _)
\* tasks_completed added up date by date from `from` through `to`.
TasksCompletedFrom(log, from, to) ==
    IF from > to THEN 0
    ELSE TasksCompleted(log, from) + TasksCompletedFrom(log, from + 1, to)

RECURSIVE FocusMinutesFrom(_, _, _)
FocusMinutesFrom(log, from, to) ==
    IF from > to THEN 0
    ELSE FocusMinutes(log, from) + FocusMinutesFrom(log, from + 1, to)

\* The latest Monday on or before `day`, found by walking back.
Monday(day) == CHOOSE m \in (day - 6)..day : m % 7 = 0

IsSubtask(ts, id) == ts[id].parent_id # NULL

\* C13: nesting never exceeds one level: no stored task has a parent that is itself a
\* sub-task.
C13_OneLevelNesting ==
    \A i \in 1..Len(tasks) :
        IsSubtask(tasks, i) => ~IsSubtask(tasks, tasks[i].parent_id)

\* rows extends stored: the stored rows are all there, unchanged, under their ids.
Extends(rows, stored) ==
    Len(rows) >= Len(stored) /\ SubSeq(rows, 1, Len(stored)) = stored

\* C14: every log_focus_session and save_assessment call that returns adds exactly
\* one row, under the next id, to its table and leaves the other table alone; and no
\* step of any operation changes or removes a focus session or assessment that the
\* database file holds.
C14_AppendOnly ==
    [][/\ \A id \in {NULL} \cup TaskIdArgs, m \in Minutes :
            (ForeignKeyOk(tasks, id) /\ log_focus_session(id, m, FALSE)) =>
                /\ Len(focus_sessions') = Len(focus_sessions) + 1
                /\ Extends(focus_sessions', focus_sessions)
                /\ assessments' = assessments
       /\ \A type \in AssessmentType :
            save_assessment(type, 1, 1, <<>>, today) =>
                /\ Len(assessments') = Len(assessments) + 1
                /\ Extends(assessments', assessments)
                /\ focus_sessions' = focus_sessions
       /\ Extends(committed'.focus_sessions, committed.focus_sessions)
       /\ Extends(committed'.assessments, committed.assessments)
       /\ Extends(focus_sessions', committed.focus_sessions)
       /\ Extends(assessments', committed.assessments)
      ]_vars

\* Two sessions, then an assessment: all three rows are in the file.
C14_Witness ==
    /\ result = "AssessmentResult"
    /\ Len(committed.focus_sessions) = 2
    /\ Len(committed.assessments) = 1
    /\ focus_sessions = committed.focus_sessions
    /\ focus_sessions[1].duration_minutes # focus_sessions[2].duration_minutes

\* No stored task has an empty or over-long title, no stored session a duration
\* outside 1..120, in the connection's view or in the file.
StoredRowsValid ==
    /\ \A i \in 1..Len(tasks) : tasks[i].title \in 1..500
    /\ \A i \in 1..Len(committed.tasks) : committed.tasks[i].title \in 1..500
    /\ \A i \in 1..Len(focus_sessions) : focus_sessions[i].duration_minutes \in 1..120
    /\ \A i \in 1..Len(committed.focus_sessions) :
            committed.focus_sessions[i].duration_minutes \in 1..120

OverDomains(f) ==
    f["Time Management"] + f["Organisation & Problem-Solving"] + f["Self-Restraint"]
        + f["Self-Motivation"] + f["Emotion Regulation"]

\* C16: for every valid BDEFS answer set (five domains, three ratings in 1..4
\* each) score_bdefs returns one sum per domain, a score equal to the sum of the
\* domain scores, max_score = 60 and score <= max_score; all ratings 1 give 15
\* and all ratings 4 give 60.
C16_ScoreBdefs ==
    applied.fn = "score_bdefs" =>
        LET answers == applied.answers
            v == applied.value
        IN  /\ v.raised = ""
            /\ DOMAIN v.domain_scores = DOMAIN answers
            /\ Cardinality(DOMAIN answers) = 5
            /\ \A d \in DOMAIN answers :
                    v.domain_scores[d] = answers[d][1] + answers[d][2] + answers[d][3]
            /\ v.score = OverDomains(v.domain_scores)
            /\ v.max_score = 60
            /\ v.score <= v.max_score
            /\ (\A d \in DOMAIN answers : answers[d] = <<1, 1, 1>>) => v.score = 15
            /\ (\A d \in DOMAIN answers : answers[d] = <<4, 4, 4>>) => v.score = 60

\* An answer set mixing the ratings 1, 2 and 4 in one domain with all 4 in
\* another was scored.
C16_Witness ==
    /\ applied.fn = "score_bdefs"
    /\ applied.answers["Time Management"] = <<1, 2, 4>>
    /\ applied.answers["Self-Restraint"] = <<4, 4, 4>>
    /\ applied.value.raised = ""
    /\ applied.value.domain_scores["Time Management"] = 7
    /\ applied.value.score = 7 + 12 + OverDomains([d \in DOMAIN applied.answers |->
            IF d \in {"Time Management", "Self-Restraint"} THEN 0
            ELSE SeqSum(applied.answers[d])])

\* C17: score_stroop yields score = number correct, max_score = number of
\* trials and domain_scores holding correct, trials and avg_time_ms, the total
\* time divided by the number of trials rounded down to whole milliseconds;
\* with trials = 0, accuracy_pct and avg_time_s are 0 and nothing is raised.
C17_ScoreStroop ==
    applied.fn = "score_stroop" =>
        LET r == applied.result
            v == applied.value
        IN  /\ r.trials = 0 => (applied.accuracy_pct = 0 /\ applied.avg_time_us = 0)
            /\ v.raised = ""
            /\ v.score = r.correct
            /\ v.max_score = r.trials
            /\ DOMAIN v.domain_scores = {"correct", "trials", "avg_time_ms"}
            /\ v.domain_scores["correct"] = r.correct
            /\ v.domain_scores["trials"] = r.trials
            /\ r.trials = 0 => v.domain_scores["avg_time_ms"] = 0
            /\ r.trials > 0 =>
                /\ v.domain_scores["avg_time_ms"] * 1000 * r.trials <= r.total_time_us
                /\ r.total_time_us < (v.domain_scores["avg_time_ms"] + 1) * 1000 * r.trials

\* C18: generate_stroop_trials(n) returns exactly n trials, 10 by default, and
\* every trial has its word and its ink_colour in the four-colour palette, the
\* two being different.
C18_GenerateStroopTrials ==
    applied.fn = "generate_stroop_trials" =>
        /\ applied.pc # "AssertionError"
        /\ ~applied.given => applied.n = 10
        /\ applied.pc = "returned" => applied.len = applied.n
        /\ \A t \in applied.trials :
            /\ t.word \in {"red", "green", "blue", "yellow"}
            /\ t.ink_colour \in {"red", "green", "blue", "yellow"}
            /\ t.word # t.ink_colour

\* The call without an argument returned its ten trials, among them every
\* word and every ink colour.
C18_Witness ==
    /\ applied.fn = "generate_stroop_trials"
    /\ ~applied.given
    /\ applied.pc = "returned"
    /\ applied.len = 10
    /\ {t.word : t \in applied.trials} = {"red", "green", "blue", "yellow"}
    /\ {t.ink_colour : t \in applied.trials} = {"red", "green", "blue", "yellow"}

\* C19: interpret_bdefs puts the score's percentage of max_score in bands with
\* inclusive upper bounds: up to 25% Minimal, up to 50% Mild, up to 75%
\* Moderate, above 75% Significant; (15, 60) is Minimal, (31, 60) Moderate and
\* (46, 60) Significant.
C19_InterpretBdefs ==
    applied.fn = "interpret_bdefs" =>
        LET score == applied.score
            max_score == applied.max_score
            band == IF 4 * score <= max_score THEN "Minimal"
                    ELSE IF 2 * score <= max_score THEN "Mild"
                    ELSE IF 4 * score <= 3 * max_score THEN "Moderate"
                    ELSE "Significant"
            returned == SubSeq(applied.value, 1, Len(band))
        IN  /\ returned = band
            /\ (score = 15 /\ max_score = 60) => returned = "Minimal"
            /\ (score = 31 /\ max_score = 60) => returned = "Moderate"
            /\ (score = 46 /\ max_score = 60) => returned = "Significant"

\* The interpretation of score 15 of 60, exactly 25%, was returned.
C19_Witness ==
    /\ applied.fn = "interpret_bdefs"
    /\ applied.score = 15
    /\ applied.max_score = 60
    /\ applied.value
        = "Minimal difficulties -- your executive functioning appears relatively strong."

\* text starts with the words of prefix.
StartsWith(text, prefix) ==
    Len(text) >= Len(prefix) /\ SubSeq(text, 1, Len(prefix)) = prefix

\* C20: interpret_stroop returns the accuracy-band sentence followed by the
\* speed-band sentence; the accuracy band is excellent from 90% correct, good
\* from 70%, moderate from 50% and low below that, 0% being taken when trials = 0;
\* the speed band is fast up to an average of 1000 ms, average up to 2000 ms and
\* slow above.
C20_InterpretStroop ==
    applied.fn = "interpret_stroop" =>
        LET correct == applied.correct
            trials == applied.trials
            avg_ms == applied.avg_ms
            accuracy == IF trials = 0 THEN "Low accuracy"
                        ELSE IF 10 * correct >= 9 * trials THEN "Excellent accuracy"
                        ELSE IF 10 * correct >= 7 * trials THEN "Good accuracy"
                        ELSE IF 2 * correct >= trials THEN "Moderate accuracy"
                        ELSE "Low accuracy"
            speed == IF avg_ms <= 1000 THEN "Your response time is fast"
                     ELSE IF avg_ms <= 2000 THEN "Your response time is average"
                     ELSE "Your response time is on the slower side"
        IN  /\ Len(applied.value) = 2
            /\ StartsWith(applied.value[1], accuracy)
            /\ StartsWith(applied.value[2], speed)

\* Nine of ten correct at an average of exactly 1000 ms was interpreted as
\* excellent and fast.
C20_Witness ==
    /\ applied.fn = "interpret_stroop"
    /\ applied.correct = 9
    /\ applied.trials = 10
    /\ applied.avg_ms = 1000
    /\ applied.value = <<"Excellent accuracy -- strong inhibitory control.",
                         "Your response time is fast.">>

\* C21: save_assessment followed by list_assessments returns a result whose
\* assessment_type, score, max_score and domain_scores equal the saved input
\* exactly; domain_scores comes back from its JSON text unchanged.
C21_SaveThenList ==
    /\ applied.fn = "save_assessment" =>
            /\ applied.value.id = Len(assessments)
            /\ applied.value.assessment_type = applied.result_in.assessment_type
            /\ applied.value.score = applied.result_in.score
            /\ applied.value.max_score = applied.result_in.max_score
            /\ applied.value.domain_scores = applied.result_in.domain_scores
    /\ (/\ applied.fn = "list_assessments"
        /\ applied.after.fn = "save_assessment"
        /\ applied.limit = 20
        /\ applied.assessment_type \in {"None", applied.after.result_in.assessment_type})
        => \E i \in 1..Len(applied.value) :
            /\ applied.value[i].id = applied.after.value.id
            /\ applied.value[i].assessment_type = applied.after.result_in.assessment_type
            /\ applied.value[i].score = applied.after.result_in.score
            /\ applied.value[i].max_score = applied.after.result_in.max_score
            /\ applied.value[i].domain_scores = applied.after.result_in.domain_scores

\* A result with a negative and a zero domain score was saved as the third row
\* and listed by the call that followed.
C21_Witness ==
    /\ applied.fn = "list_assessments"
    /\ applied.after.fn = "save_assessment"
    /\ applied.after.value.id = 3
    /\ applied.after.result_in.domain_scores
            = <<[key |-> "b", value |-> 0 - 3], [key |-> "a", value |-> 0]>>
    /\ applied.limit = 20
    /\ \E i \in 1..Len(applied.value) :
        /\ applied.value[i].id = 3
        /\ applied.value[i].domain_scores = applied.after.result_in.domain_scores
    /\ assessments[3].domain_scores
            = <<[tok |-> "{"], [tok |-> "string", text |-> "b"], [tok |-> ":"],
                [tok |-> "number", text |-> <<"-", "3">>], [tok |-> ","],
                [tok |-> "string", text |-> "a"], [tok |-> ":"],
                [tok |-> "number", text |-> <<"0">>], [tok |-> "}"]>>

\* C22: list_assessments returns results most-recent-first, only results of
\* the given type when a type filter is given, and at most `limit` of them,
\* namely the most recently saved ones that match.  Ids are given in the order
\* of saving.
C22_ListAssessments ==
    applied.fn = "list_assessments" =>
        LET v == applied.value
            match == {i \in 1..Len(assessments) :
                        applied.assessment_type \in {"None", assessments[i].type}}
            listed == {v[i].id : i \in 1..Len(v)}
        IN  /\ Len(v) <= applied.limit
            /\ Len(v) = applied.limit \/ listed = match
            /\ listed \subseteq match
            /\ \A i, j \in 1..Len(v) : i < j => v[i].id > v[j].id
            /\ \A k \in match \ listed : \A i \in 1..Len(v) : k < v[i].id

\* C23: add_task stores and returns a new task with status pending, no
\* completed_at and a fresh id, distinct from and greater than every id
\* assigned before (1 in an empty store, then 2), and leaves all existing
\* tasks unchanged.
C23_AddTask ==
    [][\A title \in Titles, p \in {NULL} \cup TaskIdArgs :
        (add_task(title, p) /\ result' = "Task") =>
            LET id == Len(tasks') IN
            /\ tasks'[id] = [title |-> title, parent_id |-> p, status |-> "pending",
                             completed_at |-> NULL]
            /\ committed'.tasks = tasks'
            /\ \A i \in 1..Len(tasks) : i < id /\ tasks'[i] = tasks[i]
            /\ \A i \in 1..Len(committed.tasks) : i < id
            /\ DOMAIN tasks' = DOMAIN tasks \cup {id}
            /\ tasks = <<>> => id = 1
            /\ Len(tasks) = 1 => id = 2]_vars

\* A second task was added after the first had been completed: it is pending
\* with id 2 and the first is still done.
C23_Witness ==
    /\ result = "Task"
    /\ Len(tasks) = 2
    /\ tasks[1].status = "done" /\ tasks[1].completed_at = 0
    /\ tasks[2] = [title |-> 8, parent_id |-> 1, status |-> "pending", completed_at |-> NULL]
    /\ today = 1
    /\ committed.tasks = tasks

\* C24: run_timer with a configuration of M minutes performs exactly 60 * M
\* one-second waits and then returns True; interrupted during a wait it
\* returns False without performing the remaining waits; in both cases it
\* terminates.
C24_RunTimer ==
    /\ [](applied.fn = "run_timer" =>
            /\ applied.waits <= 60 * applied.minutes
            /\ applied.value = "True" => applied.waits = 60 * applied.minutes
            /\ applied.pc = "bell" => applied.waits = 60 * applied.minutes)
    /\ [][/\ (applied.fn = "run_timer" /\ applied.pc = "loop" /\ TimerInterrupt) =>
                (/\ applied'.pc = "returned" /\ applied'.value = "False"
                 /\ applied'.waits = applied.waits)
          /\ (applied.fn = "run_timer" /\ applied.pc \in {"returned", "raised"}) =>
                applied' = applied
          /\ (applied.fn = "run_timer" /\ applied'.waits # applied.waits) =>
                (applied.pc = "loop" /\ applied'.waits = applied.waits + 1)]_vars
    /\ (applied.fn = "run_timer") ~> (applied.fn = "run_timer" /\ applied.pc \in {"returned", "raised"})

\* A 15-minute countdown returned True after its 900 waits.
C24_Witness ==
    /\ applied.fn = "run_timer"
    /\ applied.minutes = 15
    /\ applied.pc = "returned"
    /\ applied.value = "True"
    /\ applied.waits = 900

\* C25: the background image worker makes at most 5 fetch attempts, each on
\* a photo it has not tried before, always terminates, hands at most one
\* image to the main thread, and never reads or writes the persistence layer
\* or the timer state.
C25_ImageWorker ==
    /\ [](applied.fn = "_fetch_image" =>
            /\ applied.fetches <= 5
            /\ applied.fetches = Cardinality(applied.tried)
            /\ applied.handed <= 1)
    /\ [][(WorkerIterate \/ WorkerGiveUp) =>
            UNCHANGED <<dbvars, timervars, pending_ticks, timer_event>>]_vars
    /\ (applied.fn = "_fetch_image") ~> (applied.fn = "_fetch_image" /\ applied.pc = "done")

\* The worker gave up after five failed fetches of five different photos while
\* a focus countdown was running on the main thread.
C25_Witness ==
    /\ applied.fn = "_fetch_image"
    /\ applied.pc = "done"
    /\ applied.fetches = 5
    /\ Cardinality(applied.tried) = 5
    /\ timer_running
    /\ timer_seconds_left < timer_total - 1

\* C26: in every state reachable through add_task, set_task_active,
\* complete_task and uncomplete_task, a task has completed_at set if and only
\* if its status is done.
C26_CompletedAtIffDone ==
    \A i \in 1..Len(tasks) : (tasks[i].completed_at # NULL) <=> (tasks[i].status = "done")

\* C27: in the desktop GUI at most one tick callback is pending at any time,
\* so the remaining time of a countdown decreases by exactly one second per
\* tick interval, also when Stop is followed by Start before the previously
\* scheduled tick has fired.
C27_OneTickPending ==
    frontend = "gui" => pending_ticks <= 1

\* C28: a Stroop session in the desktop or mobile GUI saves exactly one
\* assessment, only after every generated trial has been shown and answered
\* once, with score equal to the number of correct answers and score <=
\* max_score, also when an answer is submitted during the delay before the
\* next trial is shown.
C28_StroopSession ==
    applied.fn = "stroop" =>
        /\ Len(assessments) <= 1
        /\ Len(assessments) = 1 =>
            /\ applied.idx = applied.n
            /\ applied.blind = 0
            /\ assessments[1].type = "stroop"
            /\ assessments[1].score = applied.correct
            /\ assessments[1].score <= assessments[1].max_score

\* Number of stored tasks whose status is done.
DoneTasks == Cardinality({i \in 1..Len(tasks) : tasks[i].status = "done"})

\* C29: complete_task is idempotent on the task itself (a second call on a task
\* that is already done keeps its status done) but not on the log: every call on
\* an existing task, also on one that is already done, adds exactly 1 to today's
\* tasks_completed.  That tasks_completed can exceed the number of tasks done is
\* the state of C29_Witness.
C29_CompleteTaskAgain ==
    [][\A id \in TaskIdArgs :
        (Exists(tasks, id) /\ complete_task(id, FALSE)) =>
            /\ tasks'[id].status = "done"
            /\ TasksCompleted(daily_log', today) = TasksCompleted(daily_log, today) + 1
            /\ tasks[id].status = "done" =>
                /\ \A i \in 1..Len(tasks) : tasks'[i].status = tasks[i].status
                /\ Len(tasks') = Len(tasks)]_vars

C29_Witness ==
    /\ result = "Task"
    /\ DoneTasks = 1
    /\ tasks[1].status = "done" /\ tasks[1].completed_at = today
    /\ TasksCompleted(daily_log, today) = 3
    /\ TasksCompleted(daily_log, today) > DoneTasks

\* C30: in the desktop and mobile GUIs at most one countdown is in progress:
\* starting a focus or break timer while one is running is rejected and leaves the
\* running countdown's remaining time, kind and task unchanged (while a countdown
\* goes on running its kind, task and length stay and its remaining time only
\* falls by ticks), and one focus countdown logs at most one focus session (a
\* session is logged only by the step that ends a running focus countdown, and a
\* countdown that runs again has been started afresh).
C30_OneCountdown ==
    [][(frontend = "gui" \/ frontend = "mobile") =>
        /\ (timer_running /\ (GuiFocus \/ GuiBreak \/ MobileFocus \/ MobileBreak)) =>
                /\ UNCHANGED <<timervars, tasks, focus_sessions, daily_log>>
                /\ UNCHANGED <<pending_ticks, timer_event>>
        /\ (timer_running /\ timer_running') =>
                /\ UNCHANGED <<timer_is_break, timer_task_id, timer_total>>
                /\ timer_seconds_left' \in {timer_seconds_left, timer_seconds_left - 1}
        /\ Len(focus_sessions') > Len(focus_sessions) =>
                /\ Len(focus_sessions') = Len(focus_sessions) + 1
                /\ timer_running /\ ~timer_is_break /\ timer_seconds_left <= 0
                /\ ~timer_running'
        /\ (~timer_running /\ timer_running') =>
                /\ timer_total' > 0
                /\ timer_total' - 1 <= timer_seconds_left'
      ]_vars

C30_Witness ==
    /\ frontend \in {"gui", "mobile"}
    /\ calls = 2
    /\ tasks = <<>>
    /\ ~timer_running
    /\ ~timer_is_break
    /\ timer_seconds_left = 0
    /\ Len(focus_sessions) = 1
    /\ focus_sessions[1].duration_minutes = FOCUS_DEFAULT_MINUTES

====
